---- MODULE Spec2Model ----
(***************************************************************************)
(* Model of provider-libvirt's instance-aware naming (package naming) and  *)
(* of its cross-instance reference validators (packages webhook/domain and *)
(* webhook/volume).                                                        *)
(*                                                                         *)
(* Strings of package naming are sequences of byte values (ASCII code      *)
(* points), because the code hashes int(c) and slices by byte index.       *)
(* Go's int is modelled as the 64-bit two's-complement integer of the      *)
(* amd64/arm64 builds, held as four limbs of 16 bits, least                *)
(* significant first, so that wrap-around is computed and not assumed.     *)
(*                                                                         *)
(* Names and owners of the validators are compared for equality only and   *)
(* are TLA+ strings.                                                       *)
(***************************************************************************)
EXTENDS Integers, Sequences, FiniteSets, TLC

VARIABLES
    generator,   \* naming.Generator: [Strategy |-> ...]
    call,        \* the naming function last called and its arguments (the
                 \* argument of a function of one string is in providerConfig
                 \* when it is an owner and in libvirtName when not)
    out,         \* the value that call returned
    cluster,     \* the records the validators' client reads
    request,     \* the admission request last handled by a validator, and
                 \* whether that was its second handling
    verdict,     \* the error that request returned (kind "nil" for no error)
    lookups      \* the client calls made while handling request

namingVars == <<generator, call, out>>
webhookVars == <<cluster, request, verdict, lookups>>
vars == <<generator, call, out, cluster, request, verdict, lookups>>

(***************************************************************************)
(* Bytes                                                                   *)
(***************************************************************************)
Hyphen == 45

IsUpper(c) == c >= 65 /\ c <= 90
IsLowerAlnum(c) == (c >= 97 /\ c <= 122) \/ (c >= 48 /\ c <= 57)

\* strings.ToLower on ASCII text
ToLowerByte(c) == IF IsUpper(c) THEN c + 32 ELSE c
ToLower(s) == [i \in 1..Len(s) |-> ToLowerByte(s[i])]

\* strings.HasPrefix / TrimPrefix / HasSuffix / TrimSuffix
HasPrefix(s, p) == Len(s) >= Len(p) /\ SubSeq(s, 1, Len(p)) = p
TrimPrefix(s, p) == IF HasPrefix(s, p) THEN SubSeq(s, Len(p) + 1, Len(s)) ELSE s
HasSuffix(s, p) == Len(s) >= Len(p) /\ SubSeq(s, Len(s) - Len(p) + 1, Len(s)) = p
TrimSuffix(s, p) == IF HasSuffix(s, p) THEN SubSeq(s, 1, Len(s) - Len(p)) ELSE s

\* name[:n] for n <= len(name)
FirstN(s, n) == SubSeq(s, 1, n)

(***************************************************************************)
(* Go int: 64-bit two's complement, IntLimbs limbs of LimbBase             *)
(***************************************************************************)
IntLimbs == 4
LimbBase == 65536

IntZero == <<0, 0, 0, 0>>

\* h*m + a, reduced modulo 2^64 (0 <= m <= 32, 0 <= a < 2^16)
IntMulAdd(h, m, a) ==
    LET t1 == h[1] * m + a
        t2 == h[2] * m + (t1 \div LimbBase)
        t3 == h[3] * m + (t2 \div LimbBase)
        t4 == h[4] * m + (t3 \div LimbBase)
    IN  <<t1 % LimbBase, t2 % LimbBase, t3 % LimbBase, t4 % LimbBase>>

\* a + b, reduced modulo 2^64
IntAdd(a, b) ==
    LET t1 == a[1] + b[1]
        t2 == a[2] + b[2] + (t1 \div LimbBase)
        t3 == a[3] + b[3] + (t2 \div LimbBase)
        t4 == a[4] + b[4] + (t3 \div LimbBase)
    IN  <<t1 % LimbBase, t2 % LimbBase, t3 % LimbBase, t4 % LimbBase>>

IntNot(a) == [i \in 1..IntLimbs |-> LimbBase - 1 - a[i]]
\* -a
IntNeg(a) == IntMulAdd(IntNot(a), 1, 1)
IntSub(a, b) == IntAdd(a, IntNeg(b))
\* a << 5
IntShl5(a) == IntMulAdd(a, 32, 0)
\* a < 0
IntIsNeg(a) == a[IntLimbs] >= LimbBase \div 2

RECURSIVE ModFrom(_, _, _, _)
\* the unsigned value of limbs i..1 of a, continued from remainder r, modulo m
ModFrom(a, m, r, i) ==
    IF i = 0 THEN r
    ELSE ModFrom(a, m, (r * LimbBase + a[i]) % m, i - 1)

UnsignedMod(a, m) == ModFrom(a, m, 0, IntLimbs)

\* Go's a % m for m > 0: the remainder has the sign of a
IntRem(a, m) ==
    IF IntIsNeg(a) THEN 0 - UnsignedMod(IntNeg(a), m) ELSE UnsignedMod(a, m)

HexByte(d) == IF d < 10 THEN 48 + d ELSE 87 + d
DecByte(d) == 48 + d

LimbHex(l) ==
    << HexByte(l \div 4096), HexByte((l \div 256) % 16),
       HexByte((l \div 16) % 16), HexByte(l % 16) >>

RECURSIVE AllHexFrom(_, _)
AllHexFrom(a, i) == IF i = 0 THEN <<>> ELSE LimbHex(a[i]) \o AllHexFrom(a, i - 1)

RECURSIVE StripZeros(_)
StripZeros(s) ==
    IF Len(s) > 1 /\ s[1] = 48 THEN StripZeros(Tail(s)) ELSE s

\* fmt.Sprintf("%x", a) of an int: sign, then the magnitude in lowercase hex
FormatHex(a) ==
    IF IntIsNeg(a)
    THEN <<Hyphen>> \o StripZeros(AllHexFrom(IntNeg(a), IntLimbs))
    ELSE StripZeros(AllHexFrom(a, IntLimbs))

\* fmt.Sprintf("%03d", v) for -999 <= v <= 999: width 3 counts the sign
Format03d(v) ==
    IF v >= 0
    THEN << DecByte(v \div 100), DecByte((v \div 10) % 10), DecByte(v % 10) >>
    ELSE LET n == 0 - v
         IN  IF n < 10 THEN << Hyphen, DecByte(0), DecByte(n) >>
             ELSE IF n < 100 THEN << Hyphen, DecByte(n \div 10), DecByte(n % 10) >>
             ELSE << Hyphen, DecByte(n \div 100), DecByte((n \div 10) % 10),
                     DecByte(n % 10) >>

IntOf(n) == <<n, 0, 0, 0>>

\* a is a value of type int. Every accumulator below satisfies it; the loops
\* test it on entry so that each iteration works on a computed value.
IsInt(a) == Len(a) = IntLimbs

(***************************************************************************)
(* package naming                                                          *)
(***************************************************************************)
StrategyPrefixProvider == "prefix-provider"
StrategyPrefixHost == "prefix-host"
StrategyHash == "hash"
StrategyNone == "none"
Strategies == {StrategyNone, StrategyPrefixProvider, StrategyPrefixHost, StrategyHash}

K8sNameMax == 63

\* regexp [^a-z0-9-] replaced by "-"
ReplaceInvalid(s) ==
    [i \in 1..Len(s) |-> IF IsLowerAlnum(s[i]) \/ s[i] = Hyphen THEN s[i] ELSE Hyphen]

RECURSIVE TrimLeftHyphens(_)
TrimLeftHyphens(s) ==
    IF s # <<>> /\ s[1] = Hyphen THEN TrimLeftHyphens(Tail(s)) ELSE s

RECURSIVE TrimRightHyphens(_)
TrimRightHyphens(s) ==
    IF s # <<>> /\ s[Len(s)] = Hyphen
    THEN TrimRightHyphens(SubSeq(s, 1, Len(s) - 1))
    ELSE s

\* strings.Trim(name, "-")
TrimHyphens(s) == TrimRightHyphens(TrimLeftHyphens(s))

RECURSIVE CollapseFrom(_, _)
\* regexp -+ replaced by "-", from byte i on
CollapseFrom(s, i) ==
    IF i > Len(s) THEN <<>>
    ELSE IF s[i] = Hyphen /\ i < Len(s) /\ s[i + 1] = Hyphen
         THEN CollapseFrom(s, i + 1)
         ELSE <<s[i]>> \o CollapseFrom(s, i + 1)

CollapseHyphens(s) == CollapseFrom(s, 1)

\* sanitizeName that leaves runs of "-" as they are
sanitizeName_NoCollapse(name) == TrimHyphens(ReplaceInvalid(ToLower(name)))

sanitizeName(name) == CollapseHyphens(TrimHyphens(ReplaceInvalid(ToLower(name))))

\* "libvirt-", "provider-", "config-"
HostPrefixes ==
    << <<108, 105, 98, 118, 105, 114, 116, 45>>,
       <<112, 114, 111, 118, 105, 100, 101, 114, 45>>,
       <<99, 111, 110, 102, 105, 103, 45>> >>

\* "-libvirt", "-provider", "-config"
HostSuffixes ==
    << <<45, 108, 105, 98, 118, 105, 114, 116>>,
       <<45, 112, 114, 111, 118, 105, 100, 101, 114>>,
       <<45, 99, 111, 110, 102, 105, 103>> >>

RECURSIVE RemovePrefixes(_, _)
\* for _, prefix := range ps { if HasPrefix { lower = TrimPrefix } }
RemovePrefixes(lower, ps) ==
    IF ps = <<>> THEN lower
    ELSE RemovePrefixes(IF HasPrefix(lower, Head(ps))
                        THEN TrimPrefix(lower, Head(ps))
                        ELSE lower,
                        Tail(ps))

RECURSIVE RemoveSuffixes(_, _)
RemoveSuffixes(lower, ss) ==
    IF ss = <<>> THEN lower
    ELSE RemoveSuffixes(IF HasSuffix(lower, Head(ss))
                        THEN TrimSuffix(lower, Head(ss))
                        ELSE lower,
                        Tail(ss))

RECURSIVE RemoveFirstPrefix(_, _)
\* the first prefix of ps that matches is removed, and no other
RemoveFirstPrefix(lower, ps) ==
    IF ps = <<>> THEN lower
    ELSE IF HasPrefix(lower, Head(ps)) THEN TrimPrefix(lower, Head(ps))
    ELSE RemoveFirstPrefix(lower, Tail(ps))

RECURSIVE RemoveFirstSuffix(_, _)
RemoveFirstSuffix(lower, ss) ==
    IF ss = <<>> THEN lower
    ELSE IF HasSuffix(lower, Head(ss)) THEN TrimSuffix(lower, Head(ss))
    ELSE RemoveFirstSuffix(lower, Tail(ss))

\* extractHostname with a break after the first match of each loop
extractHostname_FirstMatchOnly(providerConfig) ==
    sanitizeName(RemoveFirstSuffix(RemoveFirstPrefix(ToLower(providerConfig), HostPrefixes),
                                   HostSuffixes))

extractHostname(providerConfig) ==
    sanitizeName(RemoveSuffixes(RemovePrefixes(ToLower(providerConfig), HostPrefixes),
                                HostSuffixes))

RECURSIVE ShortHashFrom(_, _, _)
\* hash = (hash << 5) - hash + int(c), over the bytes i.. of input
ShortHashFrom(input, hash, i) ==
    IF IsInt(hash) /\ i <= Len(input)
    THEN ShortHashFrom(input,
                       IntAdd(IntSub(IntShl5(hash), hash), IntOf(input[i])),
                       i + 1)
    ELSE hash

shortHash(input) ==
    LET hashStr == FormatHex(ShortHashFrom(input, IntZero, 1))
    IN  IF Len(hashStr) > 6 THEN FirstN(hashStr, 6) ELSE hashStr

\* the int of a build whose int has 32 bits: the low half of the 64-bit one,
\* as <<, - and + are computed modulo 2^32 there
Int32Of(a) == <<a[1], a[2]>>
Int32IsNeg(a) == a[2] >= LimbBase \div 2
Int32Neg(a) ==
    LET t1 == (LimbBase - 1 - a[1]) + 1
        t2 == (LimbBase - 1 - a[2]) + (t1 \div LimbBase)
    IN  <<t1 % LimbBase, t2 % LimbBase>>

FormatHex32(a) ==
    IF Int32IsNeg(a)
    THEN <<Hyphen>> \o StripZeros(AllHexFrom(Int32Neg(a), 2))
    ELSE StripZeros(AllHexFrom(a, 2))

\* shortHash as built for a 32-bit GOARCH
shortHash32(input) ==
    LET hashStr == FormatHex32(Int32Of(ShortHashFrom(input, IntZero, 1)))
    IN  IF Len(hashStr) > 6 THEN FirstN(hashStr, 6) ELSE hashStr

RECURSIVE TruncHashFrom(_, _, _)
\* hash = hash*31 + int(c) + i, i the 0-based index of byte k
TruncHashFrom(name, hash, k) ==
    IF IsInt(hash) /\ k <= Len(name)
    THEN TruncHashFrom(name, IntMulAdd(hash, 31, name[k] + (k - 1)), k + 1)
    ELSE hash

\* truncateName reserving 3 bytes for the 4-byte suffix, without the final cut
truncateName_ShortReserve(name, maxLen) ==
    IF Len(name) <= maxLen THEN name
    ELSE LET h0 == TruncHashFrom(name, IntZero, 1)
             hash == IF IntIsNeg(h0) THEN IntNeg(h0) ELSE h0
         IN  FirstN(name, maxLen - 3) \o <<Hyphen>> \o Format03d(IntRem(hash, 1000))

truncateName(name, maxLen) ==
    IF Len(name) <= maxLen THEN name
    ELSE IF maxLen < 5 THEN FirstN(name, maxLen)
    ELSE LET h0 == TruncHashFrom(name, IntZero, 1)
             hash == IF IntIsNeg(h0) THEN IntNeg(h0) ELSE h0
             hashStr == Format03d(IntRem(hash, 1000))
             t0 == maxLen - 4
             truncateAt == IF t0 < 1 THEN 1 ELSE t0
             result == FirstN(name, truncateAt) \o <<Hyphen>> \o hashStr
         IN  IF Len(result) > maxLen THEN FirstN(result, maxLen) ELSE result

prefixProviderName(libvirtName, providerConfig) ==
    LET prefix == sanitizeName(providerConfig)
        name == sanitizeName(libvirtName)
        combined == prefix \o <<Hyphen>> \o name
    IN  truncateName(combined, K8sNameMax)

prefixHostName(libvirtName, providerConfig) ==
    LET host == extractHostname(providerConfig)
        name == sanitizeName(libvirtName)
        combined == host \o <<Hyphen>> \o name
    IN  truncateName(combined, K8sNameMax)

\* appendHash with the hash before the name
appendHash_HashFirst(libvirtName, providerConfig) ==
    LET name == sanitizeName(libvirtName)
        hash == shortHash(providerConfig)
        combined == hash \o <<Hyphen>> \o name
    IN  truncateName(combined, K8sNameMax)

appendHash(libvirtName, providerConfig) ==
    LET name == sanitizeName(libvirtName)
        hash == shortHash(providerConfig)
        combined == name \o <<Hyphen>> \o hash
    IN  truncateName(combined, K8sNameMax)

\* GenerateName whose default branch sanitizes the libvirt name
GenerateName_SanitizeNone(g, libvirtName, providerConfig) ==
    CASE g.Strategy = StrategyPrefixProvider -> prefixProviderName(libvirtName, providerConfig)
      [] g.Strategy = StrategyPrefixHost -> prefixHostName(libvirtName, providerConfig)
      [] g.Strategy = StrategyHash -> appendHash(libvirtName, providerConfig)
      [] OTHER -> sanitizeName(libvirtName)

GenerateName(g, libvirtName, providerConfig) ==
    CASE g.Strategy = StrategyPrefixProvider -> prefixProviderName(libvirtName, providerConfig)
      [] g.Strategy = StrategyPrefixHost -> prefixHostName(libvirtName, providerConfig)
      [] g.Strategy = StrategyHash -> appendHash(libvirtName, providerConfig)
      [] OTHER -> libvirtName

NewGenerator(strategy) == [Strategy |-> strategy]

\* string(strategy): the bytes of a Strategy constant
StrategyBytes(strategy) ==
    CASE strategy = StrategyPrefixProvider ->
            <<112, 114, 101, 102, 105, 120, 45,
              112, 114, 111, 118, 105, 100, 101, 114>>
      [] strategy = StrategyPrefixHost -> <<112, 114, 101, 102, 105, 120, 45, 104, 111, 115, 116>>
      [] strategy = StrategyHash -> <<104, 97, 115, 104>>
      [] strategy = StrategyNone -> <<110, 111, 110, 101>>

\* ParseStrategy that compares s as it is written
ParseStrategy_CaseSensitive(s) ==
    CASE s = StrategyBytes(StrategyPrefixProvider) -> StrategyPrefixProvider
      [] s = StrategyBytes(StrategyPrefixHost) -> StrategyPrefixHost
      [] s = StrategyBytes(StrategyHash) -> StrategyHash
      [] s = StrategyBytes(StrategyNone) \/ s = <<>> -> StrategyNone
      [] OTHER -> StrategyNone

ParseStrategy(s) ==
    LET lower == ToLower(s)
    IN  CASE lower = StrategyBytes(StrategyPrefixProvider) -> StrategyPrefixProvider
          [] lower = StrategyBytes(StrategyPrefixHost) -> StrategyPrefixHost
          [] lower = StrategyBytes(StrategyHash) -> StrategyHash
          [] lower = StrategyBytes(StrategyNone) \/ lower = <<>> -> StrategyNone
          [] OTHER -> StrategyNone

(***************************************************************************)
(* packages webhook/domain and webhook/volume                              *)
(*                                                                         *)
(* An error is its innermost message with its arguments, under the         *)
(* contexts errors.Wrap added. A pointer field holds Nil or its value.     *)
(***************************************************************************)
Nil == "<nil>"

NoError == [msg |-> "nil", args |-> <<>>, wraps |-> <<>>]
NewError(msg, args) == [msg |-> msg, args |-> args, wraps |-> <<>>]

\* errors.Wrap / errors.Wrapf: nil stays nil
Wrap(err, context, args) ==
    IF err = NoError THEN NoError
    ELSE [err EXCEPT !.wraps = <<[msg |-> context, args |-> args]>> \o @]

\* ref == nil gives "", else ref.Name
RefName(ref) == IF ref # Nil THEN ref ELSE ""

\* client.Get of the cloudinit Disk named name: the record, NotFound when no
\* record has that name, or the failure of the API server
ClientGet(c, clientErr, name) ==
    IF clientErr THEN [err |-> NewError("Unavailable", <<>>)]
    ELSE LET found == {d \in c.disks : d.Name = name}
         IN  IF found = {} THEN [err |-> NewError("NotFound", <<name>>)]
             ELSE [err |-> NoError, obj |-> CHOOSE d \in found : TRUE]

\* client.List of the Pools: all of them, in the order the API server gives
ClientList(c, clientErr) ==
    IF clientErr THEN [err |-> NewError("Unavailable", <<>>)]
    ELSE [err |-> NoError, items |-> c.pools]

\* the cluster after a call of the client: Get and List leave it as it is,
\* Update puts its object in the place of the Disk of that name
ClientApply(c, made) ==
    IF made.verb = "Update"
    THEN [c EXCEPT !.disks = {IF d.Name = made.name THEN made.obj ELSE d : d \in @}]
    ELSE c

RECURSIVE ClientApplyFrom(_, _, _)
\* the cluster after the calls i.. of calls, in order
ClientApplyFrom(c, calls, i) ==
    IF i > Len(calls) THEN c
    ELSE ClientApplyFrom(ClientApply(c, calls[i]), calls, i + 1)

CloudinitMismatch ==
    "cloudinit disk %s uses providerConfig %s, but domain uses providerConfig %s. Resources must use the same libvirt instance"

PoolMismatch ==
    "pool %s uses providerConfig %s, but volume uses providerConfig %s. Resources must use the same libvirt instance"

\* validateCloudinitRef that fetches the disk and never compares the owners
validateCloudinitRef_NoComparison(c, clientErr, cloudinitName, expectedProviderConfig) ==
    IF cloudinitName = ""
    THEN [err |-> NewError("cloudinit reference name cannot be empty", <<>>),
          calls |-> <<>>]
    ELSE LET got == ClientGet(c, clientErr, cloudinitName)
             calls == <<[verb |-> "Get", name |-> cloudinitName]>>
         IN  [err |-> Wrap(got.err, "failed to get cloudinit disk %s", <<cloudinitName>>),
              calls |-> calls]

\* validateCloudinitRef that gives a Disk with no providerConfigRef the
\* domain's, with client.Update, and accepts it
validateCloudinitRef_AdoptsOwnerless(c, clientErr, cloudinitName, expectedProviderConfig) ==
    IF cloudinitName = ""
    THEN [err |-> NewError("cloudinit reference name cannot be empty", <<>>),
          calls |-> <<>>]
    ELSE LET got == ClientGet(c, clientErr, cloudinitName)
             calls == <<[verb |-> "Get", name |-> cloudinitName]>>
         IN  IF got.err # NoError
             THEN [err |-> Wrap(got.err, "failed to get cloudinit disk %s",
                                <<cloudinitName>>),
                   calls |-> calls]
             ELSE IF got.obj.ProviderConfigReference = Nil
             THEN [err |-> NoError,
                   calls |-> calls \o
                       <<[verb |-> "Update", name |-> cloudinitName,
                          obj |-> [got.obj EXCEPT
                                      !.ProviderConfigReference = expectedProviderConfig]]>>]
             ELSE LET cloudinitProviderConfig == RefName(got.obj.ProviderConfigReference)
                  IN  IF cloudinitProviderConfig # expectedProviderConfig
                      THEN [err |-> NewError(CloudinitMismatch,
                                             <<cloudinitName, cloudinitProviderConfig,
                                               expectedProviderConfig>>),
                            calls |-> calls]
                      ELSE [err |-> NoError, calls |-> calls]

validateCloudinitRef(c, clientErr, cloudinitName, expectedProviderConfig) ==
    IF cloudinitName = ""
    THEN [err |-> NewError("cloudinit reference name cannot be empty", <<>>),
          calls |-> <<>>]
    ELSE LET got == ClientGet(c, clientErr, cloudinitName)
             calls == <<[verb |-> "Get", name |-> cloudinitName]>>
         IN  IF got.err # NoError
             THEN [err |-> Wrap(got.err, "failed to get cloudinit disk %s",
                                <<cloudinitName>>),
                   calls |-> calls]
             ELSE LET cloudinitProviderConfig == RefName(got.obj.ProviderConfigReference)
                  IN  IF cloudinitProviderConfig # expectedProviderConfig
                      THEN [err |-> NewError(CloudinitMismatch,
                                             <<cloudinitName, cloudinitProviderConfig,
                                               expectedProviderConfig>>),
                            calls |-> calls]
                      ELSE [err |-> NoError, calls |-> calls]

\* the strings the disk loop formats and drops
DiskNotes(disks) ==
    [i \in {j \in 1..Len(disks) : disks[j].VolumeId \notin {Nil, ""}} |->
        <<"disk[%d] references volume path: %s", i - 1, disks[i].VolumeId>>]

\* validateDomain that checks the cloudinit reference before the owner
validateDomain_ReferenceFirst(c, clientErr, domain) ==
    LET providerConfigName == RefName(domain.ProviderConfigReference)
        ref == IF domain.CloudinitRef # Nil
               THEN validateCloudinitRef(c, clientErr, domain.CloudinitRef,
                                         providerConfigName)
               ELSE [err |-> NoError, calls |-> <<>>]
    IN  IF ref.err # NoError
        THEN [err |-> Wrap(ref.err, "invalid cloudinit reference", <<>>),
              calls |-> ref.calls]
        ELSE IF providerConfigName = ""
        THEN [err |-> NewError("domain must have a providerConfigRef", <<>>),
              calls |-> ref.calls]
        ELSE [err |-> NoError, calls |-> ref.calls]

\* validateDomain that fetches the Disk each disk's volumeId names
validateDomain_DiskLookup(c, clientErr, domain) ==
    LET providerConfigName == RefName(domain.ProviderConfigReference)
    IN  IF providerConfigName = ""
        THEN [err |-> NewError("domain must have a providerConfigRef", <<>>),
              calls |-> <<>>]
        ELSE LET ref == IF domain.CloudinitRef # Nil
                        THEN validateCloudinitRef(c, clientErr, domain.CloudinitRef,
                                                  providerConfigName)
                        ELSE [err |-> NoError, calls |-> <<>>]
                 vol == IF domain.Disk # <<>> /\ domain.Disk[1].VolumeId \notin {Nil, ""}
                        THEN validateCloudinitRef(c, clientErr, domain.Disk[1].VolumeId,
                                                  providerConfigName)
                        ELSE [err |-> NoError, calls |-> <<>>]
             IN  IF ref.err # NoError
                 THEN [err |-> Wrap(ref.err, "invalid cloudinit reference", <<>>),
                       calls |-> ref.calls]
                 ELSE [err |-> Wrap(vol.err, "invalid disk reference", <<>>),
                       calls |-> ref.calls \o vol.calls]

validateDomain(c, clientErr, domain) ==
    LET providerConfigName == RefName(domain.ProviderConfigReference)
    IN  IF providerConfigName = ""
        THEN [err |-> NewError("domain must have a providerConfigRef", <<>>),
              calls |-> <<>>]
        ELSE LET ref == IF domain.CloudinitRef # Nil
                        THEN validateCloudinitRef(c, clientErr, domain.CloudinitRef,
                                                  providerConfigName)
                        ELSE [err |-> NoError, calls |-> <<>>]
                 notes == DiskNotes(domain.Disk)
             IN  [err |-> Wrap(ref.err, "invalid cloudinit reference", <<>>),
                  calls |-> ref.calls]

RECURSIVE ScanPools(_, _, _, _)
\* the loop over poolList.Items, from item i on
ScanPools(items, i, poolName, expectedProviderConfig) ==
    IF i > Len(items) THEN NoError
    ELSE IF items[i].Name # Nil /\ items[i].Name = poolName
         THEN LET poolProviderConfig == RefName(items[i].ProviderConfigReference)
              IN  IF poolProviderConfig # expectedProviderConfig
                  THEN NewError(PoolMismatch,
                                <<poolName, poolProviderConfig, expectedProviderConfig>>)
                  ELSE NoError
         ELSE ScanPools(items, i + 1, poolName, expectedProviderConfig)

\* validatePoolRef that takes a failed List for an empty one
validatePoolRef_IgnoreListError(c, clientErr, poolName, expectedProviderConfig) ==
    IF poolName = ""
    THEN [err |-> NewError("pool reference name cannot be empty", <<>>), calls |-> <<>>]
    ELSE [err |-> NoError, calls |-> <<[verb |-> "List", name |-> "pools"]>>]

validatePoolRef(c, clientErr, poolName, expectedProviderConfig) ==
    IF poolName = ""
    THEN [err |-> NewError("pool reference name cannot be empty", <<>>), calls |-> <<>>]
    ELSE LET poolList == ClientList(c, clientErr)
             calls == <<[verb |-> "List", name |-> "pools"]>>
         IN  IF poolList.err # NoError
             THEN [err |-> Wrap(poolList.err, "failed to list pools", <<>>),
                   calls |-> calls]
             ELSE [err |-> ScanPools(poolList.items, 1, poolName, expectedProviderConfig),
                   calls |-> calls]

validateVolume(c, clientErr, volume) ==
    LET providerConfigName == RefName(volume.ProviderConfigReference)
    IN  IF providerConfigName = ""
        THEN [err |-> NewError("volume must have a providerConfigRef", <<>>),
              calls |-> <<>>]
        ELSE LET ref == IF volume.Pool # Nil /\ volume.Pool # ""
                        THEN validatePoolRef(c, clientErr, volume.Pool, providerConfigName)
                        ELSE [err |-> NoError, calls |-> <<>>]
             IN  [err |-> Wrap(ref.err, "invalid pool reference", <<>>),
                  calls |-> ref.calls]

(***************************************************************************)
(* The naming functions applied to inputs drawn from bounded sets          *)
(***************************************************************************)
MaxNameLen == 2
MaxTailLen == 1
MaxOwnerParts == 2
FillLen == 64

\* "M", "-", "_"
NameBytes == {77, 45, 95}

\* "a" FillLen times
Fill == [i \in 1..FillLen |-> 97]

Texts(maxLen) == UNION {[1..k -> NameBytes] : k \in 0..maxLen}

\* "a" 38 times, then "omommjjomllnmmkojmljmmmd": 62 bytes. After "h-" the
\* accumulator of truncateName ends at -2^63 on these.
MinHashName ==
    [i \in 1..38 |-> 97] \o
    <<111, 109, 111, 109, 109, 106, 106, 111, 109, 108, 108, 110,
      109, 109, 107, 111, 106, 109, 108, 106, 109, 109, 109, 100>>

\* "a" 58 times, "-", "a" 5 times: 64 bytes, the 59th a "-"
HyphenAtCutName == [i \in 1..64 |-> IF i = 59 THEN Hyphen ELSE 97]

\* libvirt resource names: short ones, and ones too long for a Kubernetes name
LibvirtNames ==
    Texts(MaxNameLen) \cup {Fill \o tail : tail \in Texts(MaxTailLen)}
        \cup {MinHashName, HyphenAtCutName}

\* the combined names truncateName is given: a name, or "h-" and a name
CombinedNames == LibvirtNames \cup {<<104, Hyphen>> \o n : n \in LibvirtNames}

\* the recognised prefixes and suffixes, and "H."
OwnerParts ==
    {HostPrefixes[i] : i \in 1..Len(HostPrefixes)}
        \cup {HostSuffixes[i] : i \in 1..Len(HostSuffixes)}
        \cup {<<72, 46>>}

RECURSIVE Concats(_, _)
Concats(parts, n) ==
    IF n = 0 THEN {<<>>}
    ELSE LET shorter == Concats(parts, n - 1)
         IN  shorter \cup {a \o t : a \in shorter, t \in parts}

\* ProviderConfig names
ProviderConfigs == Concats(OwnerParts, MaxOwnerParts)

Idle == "idle"

InitNaming ==
    /\ generator \in {NewGenerator(s) : s \in Strategies}
    /\ call = [fn |-> Idle, libvirtName |-> <<>>, providerConfig |-> <<>>]
    /\ out = <<>>
    /\ cluster = [disks |-> {}, pools |-> <<>>]
    /\ request = [handler |-> Idle, obj |-> [kind |-> "none"], clientErr |-> FALSE,
                  repeated |-> FALSE]
    /\ verdict = NoError
    /\ lookups = <<>>

GenerateNameCall ==
    /\ call.fn = Idle
    /\ \E libvirtName \in LibvirtNames, providerConfig \in ProviderConfigs :
          /\ call' = [fn |-> "GenerateName", libvirtName |-> libvirtName,
                      providerConfig |-> providerConfig]
          /\ out' = GenerateName(generator, libvirtName, providerConfig)
    /\ UNCHANGED <<generator, webhookVars>>

ExtractHostnameCall ==
    /\ call.fn = Idle
    /\ \E providerConfig \in ProviderConfigs :
          /\ call' = [fn |-> "extractHostname", libvirtName |-> <<>>,
                      providerConfig |-> providerConfig]
          /\ out' = extractHostname(providerConfig)
    /\ UNCHANGED <<generator, webhookVars>>

TruncateNameCall ==
    /\ call.fn = Idle
    /\ \E name \in CombinedNames :
          /\ call' = [fn |-> "truncateName", libvirtName |-> name,
                      providerConfig |-> <<>>]
          /\ out' = truncateName(name, K8sNameMax)
    /\ UNCHANGED <<generator, webhookVars>>

\* "My_VM@2024" and "--vm-name--"
SanitizeExamples ==
    { <<77, 121, 95, 86, 77, 64, 50, 48, 50, 52>>,
      <<45, 45, 118, 109, 45, 110, 97, 109, 101, 45, 45>> }

\* the texts sanitizeName is given: resource names and ProviderConfig names
SanitizeInputs == LibvirtNames \cup ProviderConfigs \cup SanitizeExamples

SanitizeNameCall ==
    /\ call.fn = Idle
    /\ \E name \in SanitizeInputs :
          /\ call' = [fn |-> "sanitizeName", libvirtName |-> name,
                      providerConfig |-> <<>>]
          /\ out' = sanitizeName(name)
    /\ UNCHANGED <<generator, webhookVars>>

ToUpperByte(c) == IF c >= 97 /\ c <= 122 THEN c - 32 ELSE c
ToUpper(s) == [i \in 1..Len(s) |-> ToUpperByte(s[i])]
Capitalised(s) == [i \in 1..Len(s) |-> IF i = 1 THEN ToUpperByte(s[i]) ELSE s[i]]

\* strategy texts as configured: the four tokens in lower case, in upper
\* case and capitalised; the empty text; "bogus", "prefix-", "hash ", " none"
StrategyTexts ==
    UNION {{StrategyBytes(st), ToUpper(StrategyBytes(st)), Capitalised(StrategyBytes(st))} :
              st \in Strategies}
        \cup { <<>>, <<98, 111, 103, 117, 115>>, <<112, 114, 101, 102, 105, 120, 45>>,
               <<104, 97, 115, 104, 32>>, <<32, 110, 111, 110, 101>> }

ParseStrategyCall ==
    /\ call.fn = Idle
    /\ \E s \in StrategyTexts :
          /\ call' = [fn |-> "ParseStrategy", libvirtName |-> s, providerConfig |-> <<>>]
          /\ out' = ParseStrategy(s)
    /\ UNCHANGED <<generator, webhookVars>>

ShortHashCall ==
    /\ call.fn = Idle
    /\ \E input \in ProviderConfigs :
          /\ call' = [fn |-> "shortHash", libvirtName |-> <<>>,
                      providerConfig |-> input]
          /\ out' = shortHash(input)
    /\ UNCHANGED <<generator, webhookVars>>

NextNaming ==
    \/ GenerateNameCall
    \/ ExtractHostnameCall
    \/ TruncateNameCall
    \/ ShortHashCall
    \/ SanitizeNameCall
    \/ ParseStrategyCall

SpecNaming == InitNaming /\ [][NextNaming]_vars

(***************************************************************************)
(* The validators applied to objects and clusters drawn from bounded sets  *)
(***************************************************************************)
MaxPools == 2

\* the ProviderConfig of an admitted object: none, the empty name, or "A"
ObjectOwners == {Nil, "", "A"}
\* the ProviderConfig of a record of the cluster: none, "A" or "B"
RecordOwners == {Nil, "A", "B"}

Domains ==
    [kind : {"Domain"}, ProviderConfigReference : ObjectOwners,
     CloudinitRef : {Nil, "", "c1", "c2"},
     Disk : {<<>>, <<[VolumeId |-> "/var/lib/libvirt/images/base.qcow2"]>>,
             <<[VolumeId |-> "c1"]>>}]

Volumes ==
    [kind : {"Volume"}, ProviderConfigReference : ObjectOwners,
     Pool : {Nil, "", "p"},
     BaseVolumeID : {Nil, "/var/lib/libvirt/images/base.qcow2", "c1"}]

\* an object of the other kind, for the type assertion of a handler: it fails
\* before a field is read
BareDomain ==
    [kind |-> "Domain", ProviderConfigReference |-> Nil, CloudinitRef |-> Nil,
     Disk |-> <<>>]
BareVolume ==
    [kind |-> "Volume", ProviderConfigReference |-> Nil, Pool |-> Nil,
     BaseVolumeID |-> Nil]

\* the objects the domain (volume) validator is called with
DomainObjects == Domains \cup {BareVolume}
VolumeObjects == Volumes \cup {BareDomain}

DiskRecords == [Name : {"c1"}, ProviderConfigReference : RecordOwners]

\* Pools named "p" or "q" on the libvirt side, or with no name set
PoolRecords == [Name : {Nil, "p", "q"}, ProviderConfigReference : RecordOwners]

Clusters ==
    [disks : {{}} \cup {{d} : d \in DiskRecords},
     pools : UNION {[1..n -> PoolRecords] : n \in 0..MaxPools}]

\* NewValidator(mgr.GetClient()) for both kinds, over some cluster
InitWebhook ==
    /\ cluster \in Clusters
    /\ request = [handler |-> Idle, obj |-> [kind |-> "none"], clientErr |-> FALSE,
                  repeated |-> FALSE]
    /\ verdict = NoError
    /\ lookups = <<>>
    /\ generator = NewGenerator(StrategyNone)
    /\ call = [fn |-> Idle, libvirtName |-> <<>>, providerConfig |-> <<>>]
    /\ out = <<>>

\* the requests a handler may be given: any of objects when none was handled
\* yet, and the request it has just handled, once more
Admissions(handler, objects) ==
    IF request.handler = Idle
    THEN [obj : objects, clientErr : BOOLEAN, repeated : {FALSE}]
    ELSE IF request.handler = handler /\ ~request.repeated
         THEN {[obj |-> request.obj, clientErr |-> request.clientErr, repeated |-> TRUE]}
         ELSE {}

\* the handler returns result, having made the client calls of result.calls
Handled(handler, a, result) ==
    /\ request' = [handler |-> handler, obj |-> a.obj, clientErr |-> a.clientErr,
                   repeated |-> a.repeated]
    /\ verdict' = result.err
    /\ lookups' = result.calls
    /\ cluster' = ClientApplyFrom(cluster, result.calls, 1)
    /\ UNCHANGED namingVars

Accepted == [err |-> NoError, calls |-> <<>>]

DomainValidateCreate ==
    \E a \in Admissions("domain.ValidateCreate", DomainObjects) :
        Handled("domain.ValidateCreate", a,
                IF a.obj.kind # "Domain"
                THEN [err |-> NewError("expected a Domain", <<>>), calls |-> <<>>]
                ELSE validateDomain(cluster, a.clientErr, a.obj))

\* oldObj is not read
DomainValidateUpdate ==
    \E a \in Admissions("domain.ValidateUpdate", DomainObjects) :
        Handled("domain.ValidateUpdate", a,
                IF a.obj.kind # "Domain"
                THEN [err |-> NewError("expected a Domain", <<>>), calls |-> <<>>]
                ELSE validateDomain(cluster, a.clientErr, a.obj))

\* ValidateDelete that validates as ValidateCreate does
DomainValidateDelete_Validating ==
    \E a \in Admissions("domain.ValidateDelete", DomainObjects) :
        Handled("domain.ValidateDelete", a,
                IF a.obj.kind # "Domain"
                THEN [err |-> NewError("expected a Domain", <<>>), calls |-> <<>>]
                ELSE validateDomain(cluster, a.clientErr, a.obj))

DomainValidateDelete ==
    \E a \in Admissions("domain.ValidateDelete", DomainObjects) :
        Handled("domain.ValidateDelete", a, Accepted)

VolumeValidateCreate ==
    \E a \in Admissions("volume.ValidateCreate", VolumeObjects) :
        Handled("volume.ValidateCreate", a,
                IF a.obj.kind # "Volume"
                THEN [err |-> NewError("expected a Volume", <<>>), calls |-> <<>>]
                ELSE validateVolume(cluster, a.clientErr, a.obj))

\* oldObj is not read
VolumeValidateUpdate ==
    \E a \in Admissions("volume.ValidateUpdate", VolumeObjects) :
        Handled("volume.ValidateUpdate", a,
                IF a.obj.kind # "Volume"
                THEN [err |-> NewError("expected a Volume", <<>>), calls |-> <<>>]
                ELSE validateVolume(cluster, a.clientErr, a.obj))

VolumeValidateDelete ==
    \E a \in Admissions("volume.ValidateDelete", VolumeObjects) :
        Handled("volume.ValidateDelete", a, Accepted)

NextWebhook ==
    \/ DomainValidateCreate
    \/ DomainValidateUpdate
    \/ DomainValidateDelete
    \/ VolumeValidateCreate
    \/ VolumeValidateUpdate
    \/ VolumeValidateDelete

SpecWebhook == InitWebhook /\ [][NextWebhook]_vars

(***************************************************************************)
(* Properties of package naming                                            *)
(***************************************************************************)
Generated == call.fn = "GenerateName"

\* s matches ^[a-z0-9]([a-z0-9-]{0,61}[a-z0-9])?$
WellFormedName(s) ==
    /\ Len(s) >= 1
    /\ Len(s) <= K8sNameMax
    /\ \A i \in 1..Len(s) : IsLowerAlnum(s[i]) \/ s[i] = Hyphen
    /\ IsLowerAlnum(s[1])
    /\ IsLowerAlnum(s[Len(s)])

\* C1 (as claimed): under every strategy the generated identifier matches
\* ^[a-z0-9]([a-z0-9-]{0,61}[a-z0-9])?$, or is empty, and it is empty only
\* when an input is empty.
C1_GeneratedIsWellFormed ==
    Generated =>
        \/ WellFormedName(out)
        \/ out = <<>> /\ (call.libvirtName = <<>> \/ call.providerConfig = <<>>)

\* C2 (as claimed): under every strategy the generated identifier has at most
\* 63 bytes.
C2_AlwaysAtMost63 == Generated => Len(out) <= K8sNameMax

\* C2 (amended): under prefix-provider, prefix-host and hash the generated
\* identifier has at most 63 bytes whatever the lengths of the inputs; under
\* none it is as long as the libvirt name.
C2_PrefixedAtMost63 ==
    Generated =>
        IF generator.Strategy = StrategyNone
        THEN Len(out) = Len(call.libvirtName)
        ELSE Len(out) <= K8sNameMax

\* a combined name longer than 63 bytes was cut to exactly 63
C2_Witness ==
    /\ Generated
    /\ generator.Strategy # StrategyNone
    /\ Len(sanitizeName(call.libvirtName)) > K8sNameMax
    /\ Len(out) = K8sNameMax

\* C3 (as claimed): under none the identifier is sanitize(backendName) and
\* does not depend on the owner.
C3_NoneIsSanitized ==
    (Generated /\ generator.Strategy = StrategyNone) =>
        /\ out = sanitizeName(call.libvirtName)
        /\ \A p \in ProviderConfigs : GenerateName(generator, call.libvirtName, p) = out

\* C3 (amended): under none the identifier is the backend name itself, not
\* sanitized, and does not depend on the owner.
C3_NoneIsAsIs ==
    (Generated /\ generator.Strategy = StrategyNone) =>
        /\ out = call.libvirtName
        /\ \A p \in ProviderConfigs : GenerateName(generator, call.libvirtName, p) = out

\* none was applied to a name that sanitizing would change, with an owner
C3_Witness ==
    /\ Generated
    /\ generator.Strategy = StrategyNone
    /\ call.libvirtName # sanitizeName(call.libvirtName)
    /\ call.providerConfig # <<>>
    /\ out = call.libvirtName

\* C4 (as claimed): under prefix-provider, prefix-host and hash, two different
\* owners never give the same identifier to the same backend name.
C4_OwnersNeverCollide ==
    (Generated /\ generator.Strategy # StrategyNone) =>
        \A p \in ProviderConfigs :
            p # call.providerConfig =>
                GenerateName(generator, call.libvirtName, p) # out

Extracted == call.fn = "extractHostname"

\* C10 (as claimed): extractHost lowercases, removes at most one prefix (the
\* first of the list that matches), then at most one suffix (the first that
\* matches), then sanitizes.
C10_OnePrefixOneSuffix ==
    Extracted =>
        out = sanitizeName(
                RemoveFirstSuffix(
                    RemoveFirstPrefix(ToLower(call.providerConfig), HostPrefixes),
                    HostSuffixes))

AfterPrefixes(lower) ==
    TrimPrefix(TrimPrefix(TrimPrefix(lower, HostPrefixes[1]), HostPrefixes[2]),
               HostPrefixes[3])

AfterSuffixes(lower) ==
    TrimSuffix(TrimSuffix(TrimSuffix(lower, HostSuffixes[1]), HostSuffixes[2]),
               HostSuffixes[3])

NoAffix(lower) ==
    /\ \A i \in 1..Len(HostPrefixes) : ~HasPrefix(lower, HostPrefixes[i])
    /\ \A i \in 1..Len(HostSuffixes) : ~HasSuffix(lower, HostSuffixes[i])

\* C10 (amended): extractHost lowercases the owner; then takes "libvirt-",
\* "provider-", "config-" in that order and removes each one that the text
\* then starts with (so up to three prefixes go, each tried once); then does
\* the same with "-libvirt", "-provider", "-config" at the end; then
\* sanitizes. With no match it returns sanitize(ownerID). It returns a text
\* for every input.
C10_EachAffixInTurn ==
    Extracted =>
        /\ out = sanitizeName(AfterSuffixes(AfterPrefixes(ToLower(call.providerConfig))))
        /\ NoAffix(ToLower(call.providerConfig)) => out = sanitizeName(call.providerConfig)
        /\ out \in Seq(0..127)

\* extractHostname removed two prefixes from one owner
C10_Witness ==
    /\ Extracted
    /\ HasPrefix(ToLower(call.providerConfig), HostPrefixes[1])
    /\ HasPrefix(TrimPrefix(ToLower(call.providerConfig), HostPrefixes[1]), HostPrefixes[2])
    /\ out = sanitizeName(AfterSuffixes(AfterPrefixes(ToLower(call.providerConfig))))

\* C13: under prefix-provider the identifier is
\* truncate63(sanitize(ownerID) + "-" + sanitize(backendName)), under
\* prefix-host truncate63(extractHost(ownerID) + "-" + sanitize(backendName)),
\* under hash truncate63(sanitize(backendName) + "-" + shortHash(ownerID)),
\* these being truncateName at 63, sanitizeName, extractHostname, shortHash.
C13_StrategyFormulas ==
    Generated =>
        LET name == sanitizeName(call.libvirtName)
            ownerID == call.providerConfig
        IN  /\ generator.Strategy = StrategyPrefixProvider =>
                   out = truncateName(sanitizeName(ownerID) \o <<Hyphen>> \o name, K8sNameMax)
            /\ generator.Strategy = StrategyPrefixHost =>
                   out = truncateName(extractHostname(ownerID) \o <<Hyphen>> \o name, K8sNameMax)
            /\ generator.Strategy = StrategyHash =>
                   out = truncateName(name \o <<Hyphen>> \o shortHash(ownerID), K8sNameMax)

\* under hash, a long name and the hash of an owner were joined and cut
C13_Witness ==
    /\ Generated
    /\ generator.Strategy = StrategyHash
    /\ call.providerConfig # <<>>
    /\ Len(sanitizeName(call.libvirtName)) > K8sNameMax
    /\ out = truncateName(sanitizeName(call.libvirtName) \o <<Hyphen>>
                              \o shortHash(call.providerConfig), K8sNameMax)
    /\ out # sanitizeName(call.libvirtName) \o <<Hyphen>> \o shortHash(call.providerConfig)

Truncated == call.fn = "truncateName"

\* the accumulation of truncateName over the whole of name, made non-negative
\* and reduced modulo 1000
Tag(name) ==
    LET h == TruncHashFrom(name, IntZero, 1)
    IN  UnsignedMod(IF IntIsNeg(h) THEN IntNeg(h) ELSE h, 1000)

ThreeDigits(v) == << DecByte(v \div 100), DecByte((v \div 10) % 10), DecByte(v % 10) >>

\* C11 (as claimed): truncate63 returns a name of at most 63 bytes unchanged,
\* and a longer one as its first 59 bytes, "-" and the three decimal digits
\* of the tag of the whole name, 63 bytes in all, also when the accumulator
\* wraps around or ends negative.
C11_FiftyNineHyphenThreeDigits ==
    Truncated =>
        IF Len(call.libvirtName) <= K8sNameMax
        THEN out = call.libvirtName
        ELSE out = FirstN(call.libvirtName, K8sNameMax - 4) \o <<Hyphen>>
                       \o ThreeDigits(Tag(call.libvirtName))

ShortHashed == call.fn = "shortHash"

IsHexDigit(c) == (c >= 48 /\ c <= 57) \/ (c >= 97 /\ c <= 102)

\* C12 (as claimed): shortHash of every owner is six characters of
\* [0-9a-f], and the build for 32-bit ints gives the same six.
C12_SixHexDigitsAnyWidth ==
    ShortHashed =>
        /\ Len(out) = 6
        /\ \A i \in 1..Len(out) : IsHexDigit(out[i])
        /\ out = shortHash32(call.providerConfig)

Sanitized == call.fn = "sanitizeName"

NoHyphenAtEnds(s) == s # <<>> => (s[1] # Hyphen /\ s[Len(s)] # Hyphen)

NoHyphenRun(s) == \A i \in 1..(Len(s) - 1) : ~(s[i] = Hyphen /\ s[i + 1] = Hyphen)

\* C14: sanitize(sanitize(x)) = sanitize(x); sanitize(x) has only bytes of
\* [a-z0-9-], no "-" first or last and no "--"; "My_VM@2024" gives
\* "my-vm-2024" and "--vm-name--" gives "vm-name".
C14_SanitizeIdempotentWellFormed ==
    Sanitized =>
        /\ sanitizeName(out) = out
        /\ \A i \in 1..Len(out) : IsLowerAlnum(out[i]) \/ out[i] = Hyphen
        /\ NoHyphenAtEnds(out)
        /\ NoHyphenRun(out)
        /\ call.libvirtName = <<77, 121, 95, 86, 77, 64, 50, 48, 50, 52>> =>
               out = <<109, 121, 45, 118, 109, 45, 50, 48, 50, 52>>
        /\ call.libvirtName = <<45, 45, 118, 109, 45, 110, 97, 109, 101, 45, 45>> =>
               out = <<118, 109, 45, 110, 97, 109, 101>>

\* sanitizeName was given a text with an upper-case letter and, once its
\* invalid bytes are replaced, a run of "-" between two letters
C14_Witness ==
    /\ Sanitized
    /\ \E i \in 1..Len(call.libvirtName) : IsUpper(call.libvirtName[i])
    /\ LET r == ReplaceInvalid(ToLower(call.libvirtName))
       IN  \E i \in 2..(Len(r) - 2) :
              /\ r[i] = Hyphen /\ r[i + 1] = Hyphen
              /\ IsLowerAlnum(r[i - 1]) /\ IsLowerAlnum(r[i + 2])
    /\ NoHyphenRun(out)
    /\ out # <<>>

Parsed == call.fn = "ParseStrategy"

\* C18: parseStrategy returns one of the four strategies for every text: the
\* strategy whose token the text is when letter case is ignored, none for
\* the empty text and for every other text; the text of a strategy parses
\* to that strategy.
C18_ParseStrategyLenient ==
    Parsed =>
        /\ out \in Strategies
        /\ \A st \in Strategies :
              ToLower(call.libvirtName) = StrategyBytes(st) => out = st
        /\ (\A st \in Strategies : ToLower(call.libvirtName) # StrategyBytes(st)) =>
              out = StrategyNone
        /\ \A st \in Strategies : call.libvirtName = StrategyBytes(st) => out = st

\* "PREFIX-PROVIDER" was parsed to prefix-provider
C18_Witness ==
    /\ Parsed
    /\ call.libvirtName = ToUpper(StrategyBytes(StrategyPrefixProvider))
    /\ call.libvirtName # StrategyBytes(StrategyPrefixProvider)
    /\ out = StrategyPrefixProvider

\* s has only bytes of [a-z0-9-], no "-" first or last and no "--"
WellFormedBody(s) ==
    /\ \A i \in 1..Len(s) : IsLowerAlnum(s[i]) \/ s[i] = Hyphen
    /\ NoHyphenAtEnds(s)
    /\ NoHyphenRun(s)

\* C21 (as claimed): a well-formed combined name of more than 63 bytes is
\* truncated to a name with no "--" and no "-" first or last, wherever the
\* "-" of the combined name stand.
C21_TruncationKeepsWellFormed ==
    (/\ Truncated
     /\ Len(call.libvirtName) > K8sNameMax
     /\ WellFormedBody(call.libvirtName)) =>
        /\ NoHyphenRun(out)
        /\ NoHyphenAtEnds(out)

(***************************************************************************)
(* Properties of the validators                                            *)
(***************************************************************************)
\* the error kinds of the design, read off the messages of the code
IsMissingOwner(err) ==
    err.msg \in {"domain must have a providerConfigRef",
                 "volume must have a providerConfigRef"}

IsEmptyReferenceName(err) ==
    err.msg \in {"cloudinit reference name cannot be empty",
                 "pool reference name cannot be empty"}

IsCrossHostReference(err) == err.msg \in {CloudinitMismatch, PoolMismatch}

\* validateDomain ran on a Domain
DomainValidated ==
    /\ request.handler \in {"domain.ValidateCreate", "domain.ValidateUpdate"}
    /\ request.obj.kind = "Domain"

\* validateVolume ran on a Volume
VolumeValidated ==
    /\ request.handler \in {"volume.ValidateCreate", "volume.ValidateUpdate"}
    /\ request.obj.kind = "Volume"

HasOwner(obj) == RefName(obj.ProviderConfigReference) # ""

\* the Pools whose libvirt name is name and whose owner is not owner
ForeignPools(name, owner) ==
    {i \in 1..Len(cluster.pools) :
        /\ cluster.pools[i].Name = name
        /\ RefName(cluster.pools[i].ProviderConfigReference) # owner}

\* C5 (as claimed): with an owner, a non-empty pool name and a working List,
\* a Volume is rejected for a cross-host reference exactly when some listed
\* Pool has that name and another owner, wherever it stands in the list.
C5_AnyForeignPoolRejects ==
    (/\ VolumeValidated
     /\ HasOwner(request.obj)
     /\ request.obj.Pool \notin {Nil, ""}
     /\ ~request.clientErr) =>
        (IsCrossHostReference(verdict) <=>
            ForeignPools(request.obj.Pool, request.obj.ProviderConfigReference) # {})

\* C6 (as claimed): a Domain with an owner whose cloudinit reference names no
\* record is accepted.
C6_DanglingCloudinitAccepted ==
    (/\ DomainValidated
     /\ HasOwner(request.obj)
     /\ request.obj.CloudinitRef \notin {Nil, ""}
     /\ ~request.clientErr
     /\ \A d \in cluster.disks : d.Name # request.obj.CloudinitRef) =>
        verdict = NoError

\* C7 (as claimed): a Volume whose pool field is set to the empty string is
\* rejected for an empty reference name.
C7_EmptyPoolNameRejected ==
    (/\ VolumeValidated
     /\ HasOwner(request.obj)
     /\ request.obj.Pool = "") =>
        IsEmptyReferenceName(verdict)

\* the cloudinit Disk a Domain refers to, when the cluster has it
ReferredDisks == {d \in cluster.disks : d.Name = request.obj.CloudinitRef}

\* C8: a Domain with owner A whose cloudinit Disk exists with owner B is
\* rejected for a cross-host reference when A # B, the error giving the
\* disk's name, B and A; it is accepted when A = B.
C8_CloudinitOwnerMustMatch ==
    (/\ DomainValidated
     /\ HasOwner(request.obj)
     /\ ~request.clientErr
     /\ ReferredDisks # {}) =>
        \A d \in ReferredDisks :
            IF RefName(d.ProviderConfigReference) # request.obj.ProviderConfigReference
            THEN /\ IsCrossHostReference(verdict)
                 /\ verdict.args = <<d.Name, RefName(d.ProviderConfigReference),
                                     request.obj.ProviderConfigReference>>
            ELSE verdict = NoError

\* a Domain of "A" was rejected because its cloudinit Disk belongs to "B"
C8_Witness ==
    /\ DomainValidated
    /\ request.obj.ProviderConfigReference = "A"
    /\ [Name |-> request.obj.CloudinitRef, ProviderConfigReference |-> "B"] \in cluster.disks
    /\ ~request.clientErr
    /\ IsCrossHostReference(verdict)

\* C9: a Domain or Volume with no owner, or an empty one, is rejected for the
\* missing owner whatever it refers to and whatever the cluster holds, and
\* the client is not called.
C9_MissingOwnerBeforeLookup ==
    ((DomainValidated \/ VolumeValidated) /\ ~HasOwner(request.obj)) =>
        /\ IsMissingOwner(verdict)
        /\ lookups = <<>>

\* a Domain without owner, referring to a Disk the cluster has, was rejected
C9_Witness ==
    /\ DomainValidated
    /\ ~HasOwner(request.obj)
    /\ ReferredDisks # {}
    /\ IsMissingOwner(verdict)
    /\ lookups = <<>>

\* the failure of the client, under whatever contexts were added to it
IsLookupFailure(err) == err.msg = "Unavailable"

\* the validator has a lookup to make for the request
NeedsLookup ==
    \/ DomainValidated /\ HasOwner(request.obj) /\ request.obj.CloudinitRef \notin {Nil, ""}
    \/ VolumeValidated /\ HasOwner(request.obj) /\ request.obj.Pool \notin {Nil, ""}

\* C15: when the Get of the cloudinit Disk or the List of the Pools fails,
\* the validation returns an error that carries that failure: it does not
\* accept, and the error is none of CrossHostReference, MissingOwner and
\* EmptyReferenceName.
C15_LookupFailureSurfaced ==
    (NeedsLookup /\ request.clientErr) =>
        /\ verdict # NoError
        /\ IsLookupFailure(verdict)
        /\ ~IsCrossHostReference(verdict)
        /\ ~IsMissingOwner(verdict)
        /\ ~IsEmptyReferenceName(verdict)

\* the List failed for a Volume of "A" whose pool name a Pool of "B" has
C15_Witness ==
    /\ VolumeValidated
    /\ request.obj.ProviderConfigReference = "A"
    /\ request.clientErr
    /\ \E i \in 1..Len(cluster.pools) :
          cluster.pools[i] = [Name |-> request.obj.Pool, ProviderConfigReference |-> "B"]
    /\ IsLookupFailure(verdict)
    /\ lookups = <<[verb |-> "List", name |-> "pools"]>>

Deleted == request.handler \in {"domain.ValidateDelete", "volume.ValidateDelete"}

\* C16: ValidateDelete of either validator accepts every object and calls
\* the client for nothing; ValidateCreate and ValidateUpdate return what
\* validateDomain (validateVolume) returns for the object.
C16_DeleteNeverValidates ==
    /\ Deleted => (verdict = NoError /\ lookups = <<>>)
    /\ DomainValidated =>
           [err |-> verdict, calls |-> lookups]
               = validateDomain(cluster, request.clientErr, request.obj)
    /\ VolumeValidated =>
           [err |-> verdict, calls |-> lookups]
               = validateVolume(cluster, request.clientErr, request.obj)

\* the deletion of a Domain that creation would reject was accepted
C16_Witness ==
    /\ request.handler = "domain.ValidateDelete"
    /\ request.obj.kind = "Domain"
    /\ validateDomain(cluster, request.clientErr, request.obj).err # NoError
    /\ request.obj.CloudinitRef \notin {Nil, ""}
    /\ verdict = NoError
    /\ lookups = <<>>

\* C17: Domains that differ in their disks' volumeIds only, and Volumes that
\* differ in their baseVolumeId only, get the same result from the same
\* cluster, and the client is called for the cloudinit Disk (the Pools)
\* alone.
C17_OpaqueFieldsIgnored ==
    /\ DomainValidated =>
           /\ \A d \in Domains :
                 (/\ d.ProviderConfigReference = request.obj.ProviderConfigReference
                  /\ d.CloudinitRef = request.obj.CloudinitRef) =>
                     validateDomain(cluster, request.clientErr, d).err = verdict
           /\ \A i \in 1..Len(lookups) :
                 lookups[i] = [verb |-> "Get", name |-> request.obj.CloudinitRef]
    /\ VolumeValidated =>
           /\ \A v \in Volumes :
                 (/\ v.ProviderConfigReference = request.obj.ProviderConfigReference
                  /\ v.Pool = request.obj.Pool) =>
                     validateVolume(cluster, request.clientErr, v).err = verdict
           /\ \A i \in 1..Len(lookups) :
                 lookups[i] = [verb |-> "List", name |-> "pools"]

\* a Domain of "A" with no cloudinit reference, whose disk's volumeId is the
\* name of a Disk of "B", was accepted with no call of the client
C17_Witness ==
    /\ DomainValidated
    /\ request.obj.ProviderConfigReference = "A"
    /\ request.obj.CloudinitRef = Nil
    /\ request.obj.Disk # <<>>
    /\ [Name |-> request.obj.Disk[1].VolumeId, ProviderConfigReference |-> "B"]
           \in cluster.disks
    /\ verdict = NoError
    /\ lookups = <<>>

\* the client verbs that read
ReadVerbs == {"Get", "List"}

\* C19: a handler calls the client to read only and leaves every record of
\* the cluster as it was, and the second handling of a request, the client
\* answering as before, returns the verdict of the first.
C19_ReadOnlyRepeatable ==
    [][/\ \A i \in 1..Len(lookups') : lookups'[i].verb \in ReadVerbs
       /\ cluster' = cluster
       /\ request'.repeated => verdict' = verdict]_vars

\* a Domain was rejected a second time for its cloudinit Disk's owner
C19_Witness ==
    /\ request.repeated
    /\ DomainValidated
    /\ lookups = <<[verb |-> "Get", name |-> request.obj.CloudinitRef]>>
    /\ IsCrossHostReference(verdict)
    /\ ReferredDisks # {}

\* the bijections of 1..n
Orderings(n) == {f \in [1..n -> 1..n] : \A i, j \in 1..n : f[i] = f[j] => i = j}

\* C20 (as claimed): a Volume is accepted from the Pools in one order
\* exactly when it is accepted from the same Pools in any other order.
C20_PoolOrderIrrelevant ==
    (VolumeValidated /\ ~request.clientErr) =>
        \A f \in Orderings(Len(cluster.pools)) :
            LET reordered == [cluster EXCEPT
                                 !.pools = [i \in 1..Len(cluster.pools) |->
                                               cluster.pools[f[i]]]]
            IN  (validateVolume(reordered, FALSE, request.obj).err = NoError)
                    <=> (verdict = NoError)

\* the Pools of the cluster whose libvirt name is the Volume's pool
MatchingPools ==
    {i \in 1..Len(cluster.pools) : cluster.pools[i].Name = request.obj.Pool}

\* C22 (as claimed): a Domain with an owner whose cloudinit Disk exists and
\* has no owner, and a Volume with an owner one of whose matching-name Pools
\* has no owner, are rejected for a cross-host reference, the record's owner
\* reading as "".
C22_OwnerlessRecordRejects ==
    /\ (/\ DomainValidated
        /\ HasOwner(request.obj)
        /\ ~request.clientErr
        /\ \E d \in ReferredDisks : d.ProviderConfigReference = Nil) =>
           (IsCrossHostReference(verdict) /\ verdict.args[2] = "")
    /\ (/\ VolumeValidated
        /\ HasOwner(request.obj)
        /\ request.obj.Pool \notin {Nil, ""}
        /\ ~request.clientErr
        /\ \E i \in MatchingPools : cluster.pools[i].ProviderConfigReference = Nil) =>
           (IsCrossHostReference(verdict) /\ verdict.args[2] = "")

====
